---- MODULE Spec2Model ----
(***************************************************************************)
(* Model of tools/codegen/dest/gen_external_aten_fallbacks.py: the         *)
(* generator of CPU fallbacks for an external (XLA) backend.               *)
(*                                                                         *)
(* Text is modelled as a sequence of lines; a line is a record whose       *)
(* `kind` names the statement of the template and whose other fields hold  *)
(* the interpolated parts.  Interpolated expressions are sequences of      *)
(* string tokens; operator names are sequences of characters, so that the  *)
(* denylist's regular expressions are matched as re.match matches them.    *)
(***************************************************************************)
EXTENDS Integers, Sequences, FiniteSets, TLC

VARIABLES g, target, pc, idx, out, err, trace

vars == <<g, target, pc, idx, out, err, trace>>

-----------------------------------------------------------------------------
(* Bounds of the model *)

MaxArgs == 2

MaxReturns == 2

-----------------------------------------------------------------------------
(* Characters and regular expressions *)

Lit(c) == [k |-> "lit", c |-> c]

Dot == [k |-> "dot", c |-> "."]

StarNot(c) == [k |-> "star_not", c |-> c]

Lits(s) == [i \in 1..Len(s) |-> Lit(s[i])]

cudnn == <<"c", "u", "d", "n", "n">>

slow_conv_transpose2d_backward == <<"s", "l", "o", "w", "_", "c", "o", "n", "v", "_", "t", "r", "a", "n", "s", "p", "o", "s", "e", "2", "d", "_", "b", "a", "c", "k", "w", "a", "r", "d">>

slow_conv_transpose3d_backward == <<"s", "l", "o", "w", "_", "c", "o", "n", "v", "_", "t", "r", "a", "n", "s", "p", "o", "s", "e", "3", "d", "_", "b", "a", "c", "k", "w", "a", "r", "d">>

slow_conv3d_backward == <<"s", "l", "o", "w", "_", "c", "o", "n", "v", "3", "d", "_", "b", "a", "c", "k", "w", "a", "r", "d">>

thnn_conv2d_backward == <<"t", "h", "n", "n", "_", "c", "o", "n", "v", "2", "d", "_", "b", "a", "c", "k", "w", "a", "r", "d">>

thnn_conv_depthwise2d_backward == <<"t", "h", "n", "n", "_", "c", "o", "n", "v", "_", "d", "e", "p", "t", "h", "w", "i", "s", "e", "2", "d", "_", "b", "a", "c", "k", "w", "a", "r", "d">>

grad_output == <<"g", "r", "a", "d", "_", "o", "u", "t", "p", "u", "t">>

grad_input == <<"g", "r", "a", "d", "_", "i", "n", "p", "u", "t">>

output_mask == <<"o", "u", "t", "p", "u", "t", "_", "m", "a", "s", "k">>

\* _FN_DENYLIST_REGEX, in the order of the list
_FN_DENYLIST_REGEX ==
    << <<StarNot("(")>> \o Lits(cudnn),
       Lits(slow_conv_transpose2d_backward) \o <<Dot>> \o Lits(grad_output),
       Lits(slow_conv_transpose3d_backward) \o <<Dot>> \o Lits(grad_output),
       Lits(slow_conv3d_backward) \o <<Dot>> \o Lits(grad_input),
       Lits(thnn_conv2d_backward) \o <<Dot>> \o Lits(grad_input),
       Lits(thnn_conv_depthwise2d_backward) \o <<Dot>> \o Lits(grad_input) >>

\* The backtracking matcher: does pat[p..] match a prefix of s[i..] ?
RECURSIVE MatchFrom(_, _, _, _)
MatchFrom(pat, p, s, i) ==
    IF p > Len(pat) THEN TRUE
    ELSE LET e == pat[p] IN
         CASE e.k = "lit" ->
                 /\ i <= Len(s)
                 /\ s[i] = e.c
                 /\ MatchFrom(pat, p + 1, s, i + 1)
           [] e.k = "dot" ->
                 /\ i <= Len(s)
                 /\ s[i] # "\n"
                 /\ MatchFrom(pat, p + 1, s, i + 1)
           [] OTHER ->
                 \/ (i <= Len(s) /\ s[i] # e.c /\ MatchFrom(pat, p, s, i + 1))
                 \/ MatchFrom(pat, p + 1, s, i)

\* re.match(pat, s): the pattern matches at the beginning of s
re_match(pat, s) == MatchFrom(pat, 1, s, 1)

-----------------------------------------------------------------------------
(* The data model the generator reads *)

BaseType(n) == [k |-> "Base", name |-> n]

OptionalType(t) == [k |-> "Optional", elem |-> t]

ListType(t) == [k |-> "List", elem |-> t]

TensorT == BaseType("Tensor")

DeviceT == BaseType("Device")

IntT == BaseType("int")

RECURSIVE is_tensor_like(_)
is_tensor_like(t) ==
    IF t.k = "Base" THEN t.name = "Tensor" ELSE is_tensor_like(t.elem)

NoAnnotation == [none |-> TRUE]

Annotation(w) == [is_write |-> w]

\* Argument.is_write and Return.is_write
is_write(a) == a.annotation # NoAnnotation /\ a.annotation.is_write

GenericKeys == {"Math", "DefaultBackend"}

is_generic_dispatch_key(k) == k \in GenericKeys

NoName == <<>>

\* str(OperatorName): the base name, then "." and the overload name if any
OperatorNameStr(n) ==
    IF n.overload_name = NoName THEN n.name ELSE n.name \o <<".">> \o n.overload_name

in_denylist(f) ==
    \E r \in 1..Len(_FN_DENYLIST_REGEX) :
        re_match(_FN_DENYLIST_REGEX[r], OperatorNameStr(f.name))

requires_lowering(f) == ~ \E k \in f.dispatch : is_generic_dispatch_key(k)

has_xla_lowering(f) == f.metadata

requires_backend_wrapper_without_metadata(f) ==
    ~in_denylist(f) /\ requires_lowering(f)

requires_backend_wrapper(f) ==
    ~in_denylist(f) /\ (requires_lowering(f) \/ has_xla_lowering(f))

-----------------------------------------------------------------------------
(* Helpers on sequences and dictionaries *)

SeqRange(s) == {s[i] : i \in 1..Len(s)}

\* dict.get(key, default)
Get(d, key, default) == IF key \in DOMAIN d THEN d[key] ELSE default

\* {a: text(i) for i, a in enumerate(xs)}: a later equal key overwrites
LastIndex(xs, a) ==
    CHOOSE i \in 1..Len(xs) : xs[i] = a /\ \A j \in (i + 1)..Len(xs) : xs[j] # a

Names(xs) == [i \in 1..Len(xs) |-> xs[i].name]

-----------------------------------------------------------------------------
(* External collaborators: signature rendering *)

\* dispatcher_sig.name() and the faithful C++ signature's name
sig_name(f) == f.name.name

\* cpp.return_names(f, fallback_name=...)
return_names(f, fallback_name) ==
    [i \in 1..Len(f.returns) |->
        IF f.returns[i].name # "" THEN <<f.returns[i].name>>
        ELSE IF Len(f.returns) = 1 THEN <<fallback_name>>
        ELSE <<fallback_name, ToString(i - 1)>>]

-----------------------------------------------------------------------------
(* xla_tensor_creation_api *)

NeedsWrapAlways(ret) ==
    \/ ret.type = TensorT
    \/ (ret.type.k = "List" /\ ret.type.elem = TensorT)

NeedsWrap(ret) ==
    \/ (ret.type = TensorT /\ ~is_write(ret))
    \/ (ret.type.k = "List" /\ ret.type.elem = TensorT)

xla_tensor_creation_api(ret_name, ret, device_param_name, cpu_result_name) ==
    IF NeedsWrap(ret)
    THEN <<"to_device_opt(">> \o cpu_result_name
            \o <<", get_device_arg(", device_param_name, "))">>
    ELSE ret_name

-----------------------------------------------------------------------------
(* get_device_param *)

const_tensor_or_self(args) ==
    SelectSeq(args, LAMBDA a :
        (a.type = TensorT \/ a.type = OptionalType(TensorT)) /\ ~is_write(a))

tensor_like(args) == SelectSeq(args, LAMBDA a : is_tensor_like(a.type))

device_like(args) ==
    SelectSeq(args, LAMBDA a :
        a.type = DeviceT \/ a.type = OptionalType(DeviceT))

NeedDevice == "Need a tensor-like or device argument in order to determine the output device"

get_device_param_first(args) ==
    IF tensor_like(args) # <<>>
    THEN [ok |-> TRUE, name |-> tensor_like(args)[1].name]
    ELSE IF device_like(args) # <<>>
    THEN [ok |-> TRUE, name |-> device_like(args)[1].name]
    ELSE [ok |-> FALSE, name |-> ""]

get_device_param(args) ==
    IF const_tensor_or_self(args) # <<>>
    THEN [ok |-> TRUE, name |-> const_tensor_or_self(args)[1].name]
    ELSE IF tensor_like(args) # <<>>
    THEN [ok |-> TRUE, name |-> tensor_like(args)[1].name]
    ELSE IF device_like(args) # <<>>
    THEN [ok |-> TRUE, name |-> device_like(args)[1].name]
    ELSE [ok |-> FALSE, name |-> ""]

-----------------------------------------------------------------------------
(* The marshaling plan: lines 164-180 *)

tensorlists(args) ==
    SelectSeq(args, LAMBDA a : a.type.k = "List" /\ a.type.elem = TensorT)

tensorlist_args(args) ==
    [a \in SeqRange(tensorlists(args)) |-> <<"l_", a.name>>]

opt_tensors(args) ==
    SelectSeq(args, LAMBDA a : a.type.k = "Optional" /\ a.type.elem = TensorT)

opt_tensor_args(args) ==
    [a \in SeqRange(opt_tensors(args)) |->
        <<"xlatens_opt[", ToString(LastIndex(opt_tensors(args), a) - 1), "]">>]

tensors(args) == SelectSeq(args, LAMBDA a : a.type = TensorT)

tensor_args(args) ==
    [a \in SeqRange(tensors(args)) |->
        <<"xlatens[", ToString(LastIndex(tensors(args), a) - 1), "]">>]

\* enumerate(xs): the 0-based positions of xs
enumerate(xs) == [i \in 1..Len(xs) |-> i - 1]

annotated_tensor_indices_all(args) ==
    SelectSeq(enumerate(tensors(args)),
              LAMBDA i : tensors(args)[i + 1].annotation # NoAnnotation)

\* lines 179-180
annotated_tensor_indices(args) ==
    SelectSeq(enumerate(tensors(args)),
              LAMBDA i : /\ tensors(args)[i + 1].annotation # NoAnnotation
                         /\ tensors(args)[i + 1].annotation.is_write)

updated_bindings_by_name(args) == [p \in 1..Len(args) |-> <<args[p].name>>]

updated_bindings(args) ==
    [p \in 1..Len(args) |->
        Get(tensorlist_args(args), args[p],
            Get(opt_tensor_args(args), args[p],
                Get(tensor_args(args), args[p], <<args[p].name>>)))]

-----------------------------------------------------------------------------
(* gen_unstructured_external: the text of one operation for one target *)

NAMESPACED_DECLARATION == "NAMESPACED_DECLARATION"

REGISTRATION == "REGISTRATION"

NAMESPACED_DEFINITION == "NAMESPACED_DEFINITION"

Targets == {NAMESPACED_DECLARATION, REGISTRATION, NAMESPACED_DEFINITION}

cpu_result_name == "x_result"

\* Variant.function not in f.native_function.variants
is_method(f) == "function" \notin f.variants

\* line 148
declaration_text(f) == << [kind |-> "decl", name |-> sig_name(f)] >>

skip_registration_own(f, grp) == f.metadata

\* line 154
skip_registration(f, grp) ==
    f.metadata \/ (grp.kind = "group" /\ grp.functional.metadata)

\* lines 150-157
registration_text(f, grp) ==
    IF skip_registration(f, grp) THEN <<>>
    ELSE << [kind |-> "m.impl", op |-> OperatorNameStr(f.name),
             cls |-> "AtenXlaTypeDefault", name |-> sig_name(f)] >>

\* lines 185-202
intermediates(args) ==
    [i \in 1..Len(tensorlists(args)) |->
        [kind |-> "to_cpu_list",
         var |-> tensorlist_args(args)[tensorlists(args)[i]],
         arg |-> tensorlists(args)[i].name]]
    \o << [kind |-> "xlatens_tensors", names |-> Names(tensors(args))],
          [kind |-> "xlatens"] >>
    \o (IF Len(opt_tensors(args)) > 0
        THEN << [kind |-> "xlatens_opt_tensors", names |-> Names(opt_tensors(args))],
                [kind |-> "xlatens_opt"] >>
        ELSE <<>>)

\* lines 218-225
at_call(f) ==
    LET ub == updated_bindings(f.args) IN
    [kind |-> "at_call",
     capture |-> IF f.returns # <<>> THEN <<cpu_result_name>> ELSE <<>>,
     method |-> is_method(f),
     receiver |-> IF is_method(f) THEN ub[1] ELSE <<>>,
     callee |-> sig_name(f),
     args |-> IF is_method(f) THEN Tail(ub) ELSE ub]

avoid_warning_always(f) ==
    << [kind |-> "static_cast_void", var |-> cpu_result_name] >>

\* lines 223-226
avoid_warning(f) ==
    IF f.returns # <<>>
    THEN << [kind |-> "static_cast_void", var |-> cpu_result_name] >>
    ELSE <<>>

\* lines 228-239
mutation_lines(args) ==
    IF Len(annotated_tensor_indices(args)) > 0
    THEN << [kind |-> "xlatens_update_indices",
             indices |-> annotated_tensor_indices(args)],
            [kind |-> "copy_back_loop"] >>
    ELSE <<>>

\* lines 241-257, given the device parameter's name
return_str(f, dev) ==
    LET ret_names == return_names(f, cpu_result_name) IN
    IF f.returns = <<>> THEN <<>>
    ELSE IF Len(ret_names) = 1
    THEN << [kind |-> "return", tuple |-> FALSE,
             comps |-> << xla_tensor_creation_api(
                              ret_names[1], f.returns[1], dev,
                              <<cpu_result_name>>) >>] >>
    ELSE << [kind |-> "return", tuple |-> TRUE,
             comps |-> [i \in 1..Len(f.returns) |->
                          xla_tensor_creation_api(
                              ret_names[i], f.returns[i], dev,
                              <<"std::get<", ToString(i - 1), ">(",
                                cpu_result_name, ")">>)]] >>

returns_always_selecting(f) ==
    LET dev == get_device_param(f.args) IN
    IF ~dev.ok
    THEN [ok |-> FALSE, lines |-> <<>>, selector_runs |-> 1]
    ELSE [ok |-> TRUE, lines |-> return_str(f, dev.name),
          selector_runs |-> Len(f.returns)]

\* lines 241-257: the selector is run once per declared return, as an
\* argument of each xla_tensor_creation_api call, and not at all without returns
returns(f) ==
    IF f.returns = <<>>
    THEN [ok |-> TRUE, lines |-> <<>>, selector_runs |-> 0]
    ELSE LET dev == get_device_param(f.args) IN
         IF ~dev.ok
         THEN [ok |-> FALSE, lines |-> <<>>, selector_runs |-> 1]
         ELSE [ok |-> TRUE, lines |-> return_str(f, dev.name),
               selector_runs |-> Len(f.returns)]

\* lines 259-268
definition_text(f, return_lines) ==
    << [kind |-> "defn", cls |-> "AtenXlaTypeDefault", name |-> sig_name(f)],
       [kind |-> "XLA_FN_TRACK"],
       [kind |-> "XLA_COUNTER", name |-> sig_name(f)],
       [kind |-> "TF_VLOG", name |-> sig_name(f),
        print_args |-> Names(tensors(f.args))] >>
    \o intermediates(f.args)
    \o << at_call(f) >>
    \o mutation_lines(f.args)
    \o avoid_warning(f)
    \o return_lines
    \o << [kind |-> "end"] >>

\* what one call of gen_unstructured_external yields: None, a text, or an
\* AssertionError; `ran` lists the steps that were run
Result(st, text, ran) == [status |-> st, text |-> text, ran |-> ran]

\* lines 143-268: the operation passed the filter
gen_eligible(f, grp, tgt) ==
    IF tgt = NAMESPACED_DECLARATION
    THEN Result("Text", declaration_text(f), <<"requires_backend_wrapper">>)
    ELSE IF tgt = REGISTRATION
    THEN Result("Text", registration_text(f, grp), <<"requires_backend_wrapper">>)
    ELSE LET r == returns(f)
             ran == <<"requires_backend_wrapper", "marshaling_plan", "at_call">>
                    \o [i \in 1..r.selector_runs |-> "get_device_param"]
         IN  IF ~r.ok
             THEN Result("AssertionError", <<>>, ran)
             ELSE Result("Text", definition_text(f, r.lines), ran)

gen_unfiltered(f, grp, tgt) == gen_eligible(f, grp, tgt)

\* lines 120-268
gen_unstructured_external(f, grp, tgt) ==
    IF ~requires_backend_wrapper(f)
    THEN Result("None", <<>>, <<"requires_backend_wrapper">>)
    ELSE gen_eligible(f, grp, tgt)

\* g.functions(): the out form, the functional form, then the in-place form
functions(grp) == <<grp.out, grp.functional>> \o grp.inplace

-----------------------------------------------------------------------------
(* The inputs: operations and operation groups the schema layer can build *)

Arg(n, t, an) == [name |-> n, type |-> t, annotation |-> an]

Ret(n, t, an) == [name |-> n, type |-> t, annotation |-> an]

Fn(n, d, m, v, a, r) ==
    [name |-> n, dispatch |-> d, metadata |-> m, variants |-> v,
     args |-> a, returns |-> r]

OpName(n, o) == [name |-> n, overload_name |-> o]

ArgNames == <<"self", "other", "out", "dim">>

Kind(t, an) == [type |-> t, annotation |-> an]

\* an annotation is only parsed on a type that starts with Tensor
ArgKinds ==
    { Kind(TensorT, NoAnnotation), Kind(TensorT, Annotation(FALSE)),
      Kind(TensorT, Annotation(TRUE)),
      Kind(OptionalType(TensorT), NoAnnotation),
      Kind(OptionalType(TensorT), Annotation(TRUE)),
      Kind(ListType(TensorT), NoAnnotation),
      Kind(ListType(TensorT), Annotation(TRUE)),
      Kind(ListType(OptionalType(TensorT)), NoAnnotation),
      Kind(DeviceT, NoAnnotation), Kind(OptionalType(DeviceT), NoAnnotation),
      Kind(IntT, NoAnnotation) }

ArgLists ==
    UNION { { [i \in 1..n |-> Arg(ArgNames[i], ks[i].type, ks[i].annotation)] :
                ks \in [1..n -> ArgKinds] } : n \in 0..MaxArgs }

RetKinds ==
    { Ret("", TensorT, NoAnnotation), Ret("", TensorT, Annotation(FALSE)),
      Ret("", TensorT, Annotation(TRUE)),
      Ret("", ListType(TensorT), NoAnnotation),
      Ret("", ListType(TensorT), Annotation(TRUE)),
      Ret("", OptionalType(TensorT), NoAnnotation),
      Ret("", IntT, NoAnnotation), Ret("count", IntT, NoAnnotation) }

RetLists == UNION { [1..n -> RetKinds] : n \in 0..MaxReturns }

add == <<"a", "d", "d">>

add_ == <<"a", "d", "d", "_">>

Tensor == <<"T", "e", "n", "s", "o", "r">>

out_ == <<"o", "u", "t">>

cudnn_batch_norm == <<"c", "u", "d", "n", "n", "_", "b", "a", "t", "c", "h", "_", "n", "o", "r", "m">>

_cudnn_rnn == <<"_", "c", "u", "d", "n", "n", "_", "r", "n", "n">>

OpNames ==
    { OpName(add, Tensor), OpName(cudnn_batch_norm, NoName),
      OpName(_cudnn_rnn, NoName),
      OpName(slow_conv3d_backward, grad_input),
      OpName(slow_conv3d_backward, output_mask),
      OpName(thnn_conv2d_backward, grad_input),
      OpName(thnn_conv2d_backward, output_mask) }

DispatchKeys == {"CPU", "Math", "DefaultBackend"}

SelfT == Arg("self", TensorT, NoAnnotation)

OtherT == Arg("other", TensorT, NoAnnotation)

OutW == Arg("out", TensorT, Annotation(TRUE))

FewReturns ==
    { <<>>, <<Ret("", TensorT, NoAnnotation)>>,
      <<Ret("", TensorT, Annotation(TRUE)), Ret("", IntT, NoAnnotation)>> }

FewArgs ==
    { <<>>, <<SelfT>>, <<Arg("self", ListType(TensorT), NoAnnotation)>>,
      <<Arg("self", IntT, NoAnnotation),
        Arg("other", OptionalType(DeviceT), NoAnnotation)>>,
      <<Arg("self", TensorT, Annotation(TRUE)), OtherT>> }

FewShapes ==
    { [args |-> <<SelfT>>, returns |-> <<Ret("", TensorT, NoAnnotation)>>],
      [args |-> <<Arg("self", IntT, NoAnnotation)>>, returns |-> <<>>] }

\* a method-only operation has a Tensor receiver as its first argument
VariantsFor(a) ==
    IF a # <<>> /\ a[1].type = TensorT
    THEN {{"function", "method"}, {"method"}}
    ELSE {{"function"}}

\* operations that pass the filter, over every parameter list
ArgFns ==
    UNION { { Fn(OpName(add, Tensor), {"CPU"}, FALSE, v, a, r) :
                v \in VariantsFor(a), r \in FewReturns } : a \in ArgLists }

\* operations that pass the filter, over every list of returns
RetFns ==
    { Fn(OpName(add, Tensor), {"CPU"}, FALSE, {"function"}, a, r) :
        a \in FewArgs, r \in RetLists }

\* operations over every name, dispatch table and metadata presence
EligFns ==
    { Fn(n, d, m, {"function"}, sh.args, sh.returns) :
        n \in OpNames, d \in SUBSET DispatchKeys, m \in BOOLEAN, sh \in FewShapes }

Function(f) == [kind |-> "function", f |-> f]

Group(st, fu, ou, inp) ==
    [kind |-> "group", structured |-> st, functional |-> fu, out |-> ou,
     inplace |-> inp]

TensorRet == <<Ret("", TensorT, NoAnnotation)>>

TensorRefRet == <<Ret("", TensorT, Annotation(TRUE))>>

\* a member with a return and nothing to take the output device from
NoDeviceFn(n, v) ==
    Fn(n, {"CPU"}, FALSE, v, <<Arg("self", IntT, NoAnnotation)>>,
       <<Ret("", IntT, NoAnnotation)>>)

MemberDispatch == {{"CPU"}, {"Math"}}

AddFunctionals ==
    { Fn(OpName(add, Tensor), d, m, {"function", "method"}, <<SelfT, OtherT>>,
         TensorRet) : d \in MemberDispatch, m \in BOOLEAN }
    \cup { NoDeviceFn(OpName(add, Tensor), {"function"}) }

AddOuts ==
    { Fn(OpName(add, out_), d, m, {"function"}, <<SelfT, OtherT, OutW>>,
         TensorRefRet) : d \in MemberDispatch, m \in BOOLEAN }
    \cup { NoDeviceFn(OpName(add, out_), {"function"}) }

AddInplaces ==
    { Fn(OpName(add_, Tensor), d, m, {"method"},
         <<Arg("self", TensorT, Annotation(TRUE)), OtherT>>,
         TensorRefRet) : d \in MemberDispatch, m \in BOOLEAN }

ThnnFunctionals ==
    { Fn(OpName(thnn_conv2d_backward, output_mask), {"CPU"}, m, {"function"},
         <<SelfT, OtherT>>, TensorRet \o TensorRet) : m \in BOOLEAN }

ThnnOuts ==
    { Fn(OpName(thnn_conv2d_backward, grad_input), {"CPU"}, m, {"function"},
         <<SelfT, OtherT, OutW>>, TensorRefRet) : m \in BOOLEAN }

Groups ==
    { Group(st, fu, ou, inp) :
        st \in BOOLEAN, fu \in AddFunctionals, ou \in AddOuts,
        inp \in {<<>>} \cup { <<f>> : f \in AddInplaces } }
    \cup { Group(st, fu, ou, <<>>) :
             st \in BOOLEAN, fu \in ThnnFunctionals, ou \in ThnnOuts }

Inputs ==
    { Function(f) : f \in ArgFns \cup RetFns \cup EligFns } \cup Groups

-----------------------------------------------------------------------------
(* GenExternalAtenFallback.__call__ *)

NotImplemented == "Not Implemented"

Init ==
    /\ g \in Inputs
    /\ target \in Targets
    /\ pc = "call"
    /\ idx = 1
    /\ out = <<>>
    /\ err = ""
    /\ trace = <<>>

\* an AssertionError leaves __call__: no list is returned
Raise(msg) ==
    /\ pc' = "raised"
    /\ err' = msg
    /\ out' = <<>>

\* lines 275-278: one operation; x is dropped when it is None or empty
CallFunction ==
    /\ pc = "call"
    /\ g.kind = "function"
    /\ LET x == gen_unstructured_external(g.f, g, target) IN
         /\ trace' = Append(trace, [member |-> 1, status |-> x.status, ran |-> x.ran])
         /\ IF x.status = "AssertionError"
            THEN Raise(NeedDevice)
            ELSE /\ pc' = "returned"
                 /\ out' = IF x.status = "Text" /\ x.text # <<>>
                           THEN <<x.text>> ELSE <<>>
                 /\ UNCHANGED err
    /\ UNCHANGED <<g, target, idx>>

\* lines 269-272: a structured group is not implemented
CallStructured ==
    /\ pc = "call"
    /\ g.kind = "group"
    /\ g.structured
    /\ Raise(NotImplemented)
    /\ UNCHANGED <<g, target, idx, trace>>

\* lines 273-274: list(mapMaybe(...)) starts to draw from g.functions()
CallUnstructured ==
    /\ pc = "call"
    /\ g.kind = "group"
    /\ ~g.structured
    /\ pc' = "mapMaybe"
    /\ UNCHANGED <<g, target, idx, out, err, trace>>

MapMaybeNextPrepending ==
    /\ pc = "mapMaybe"
    /\ idx <= Len(functions(g))
    /\ LET x == gen_unstructured_external(functions(g)[idx], g, target) IN
         /\ trace' = Append(trace, [member |-> idx, status |-> x.status, ran |-> x.ran])
         /\ IF x.status = "AssertionError"
            THEN Raise(NeedDevice)
            ELSE /\ pc' = "mapMaybe"
                 /\ out' = IF x.status = "None" THEN out ELSE <<x.text>> \o out
                 /\ UNCHANGED err
    /\ idx' = idx + 1
    /\ UNCHANGED <<g, target>>

\* line 274: mapMaybe draws the next member and keeps what is not None
MapMaybeNext ==
    /\ pc = "mapMaybe"
    /\ idx <= Len(functions(g))
    /\ LET x == gen_unstructured_external(functions(g)[idx], g, target) IN
         /\ trace' = Append(trace, [member |-> idx, status |-> x.status, ran |-> x.ran])
         /\ IF x.status = "AssertionError"
            THEN Raise(NeedDevice)
            ELSE /\ pc' = "mapMaybe"
                 /\ out' = IF x.status = "None" THEN out ELSE Append(out, x.text)
                 /\ UNCHANGED err
    /\ idx' = idx + 1
    /\ UNCHANGED <<g, target>>

\* line 274: the members are exhausted and the list is returned
MapMaybeDone ==
    /\ pc = "mapMaybe"
    /\ idx > Len(functions(g))
    /\ pc' = "returned"
    /\ UNCHANGED <<g, target, idx, out, err, trace>>

Next ==
    \/ CallFunction
    \/ CallStructured
    \/ CallUnstructured
    \/ MapMaybeNext
    \/ MapMaybeDone

Spec == Init /\ [][Next]_vars

-----------------------------------------------------------------------------
(* Properties, stated without the generator's own operators *)

Returned == pc = "returned"

Raised == pc = "raised"

Single == g.kind = "function"

UnstructuredGroup == g.kind = "group" /\ ~g.structured

\* the operations of the input, in the order they are generated
Members == IF Single THEN <<g.f>> ELSE functions(g)

\* the name holds "cudnn" with no "(" before it
CudnnName(s) ==
    \E i \in 1..(Len(s) - 4) :
        /\ SubSeq(s, i, i + 4) = cudnn
        /\ \A j \in 1..(i - 1) : s[j] # "("

\* the name starts with `base`, one character, then `overload`
StartsWith(s, base, overload) ==
    /\ Len(s) >= Len(base) + 1 + Len(overload)
    /\ SubSeq(s, 1, Len(base)) = base
    /\ SubSeq(s, Len(base) + 2, Len(base) + 1 + Len(overload)) = overload

Denied(f) ==
    LET s == OperatorNameStr(f.name) IN
    \/ CudnnName(s)
    \/ StartsWith(s, slow_conv_transpose2d_backward, grad_output)
    \/ StartsWith(s, slow_conv_transpose3d_backward, grad_output)
    \/ StartsWith(s, slow_conv3d_backward, grad_input)
    \/ StartsWith(s, thnn_conv2d_backward, grad_input)
    \/ StartsWith(s, thnn_conv_depthwise2d_backward, grad_input)

NoGenericKey(f) == f.dispatch \cap {"Math", "DefaultBackend"} = {}

Eligible(f) == ~Denied(f) /\ (NoGenericKey(f) \/ f.metadata)

RECURSIVE Flatten(_)
Flatten(texts) ==
    IF texts = <<>> THEN <<>> ELSE Head(texts) \o Flatten(Tail(texts))

LinesOfKind(text, k) == SelectSeq(text, LAMBDA l : l.kind = k)

PositionOfKind(text, k) == CHOOSE i \in 1..Len(text) : text[i].kind = k

\* the one Definition text of a single operation
DefinitionProduced ==
    Returned /\ Single /\ target = NAMESPACED_DEFINITION /\ out # <<>>

\* C1: every run of the filter on an operation lets it pass exactly when its
\* name matches no denylist pattern and (no dispatch key is generic or
\* backend metadata is present); a denied name never passes.
C1_Eligibility ==
    \A t \in 1..Len(trace) :
        LET f == Members[trace[t].member] IN
        /\ (trace[t].status # "None") <=> Eligible(f)
        /\ Denied(f) => trace[t].status = "None"

C1_Witness ==
    /\ Returned
    /\ Single
    /\ Denied(g.f)
    /\ g.f.metadata
    /\ NoGenericKey(g.f)
    /\ trace[1].status = "None"

\* C2: an ineligible operation contributes no text under any target, alone
\* or in an unstructured group, and neither the marshaling plan nor the
\* device-argument selector is run for it.
C2_IneligibleSilent ==
    /\ \A t \in 1..Len(trace) :
          ~Eligible(Members[trace[t].member])
              => trace[t].ran = <<"requires_backend_wrapper">>
    /\ (Single /\ pc # "call" /\ ~Eligible(g.f)) => (Returned /\ out = <<>>)
    /\ (UnstructuredGroup /\ Returned)
          => Len(out) = Cardinality({i \in 1..Len(Members) : Eligible(Members[i])})

C2_Witness ==
    /\ UnstructuredGroup
    /\ Returned
    /\ target = NAMESPACED_DEFINITION
    /\ Denied(g.out)
    /\ g.out.metadata
    /\ Eligible(g.functional)
    /\ Len(out) = 1

\* the tensor-bearing types of the inputs
TensorBearing ==
    { TensorT, OptionalType(TensorT), ListType(TensorT),
      ListType(OptionalType(TensorT)) }

IsConstTensor(a) ==
    /\ a.type \in {TensorT, OptionalType(TensorT)}
    /\ a.annotation \in {NoAnnotation, Annotation(FALSE)}

IsTensorBearing(a) == a.type \in TensorBearing

IsDevice(a) == a.type \in {DeviceT, OptionalType(DeviceT)}

ConstTensors(args) == {i \in 1..Len(args) : IsConstTensor(args[i])}

TensorBearers(args) == {i \in 1..Len(args) : IsTensorBearing(args[i])}

Devices(args) == {i \in 1..Len(args) : IsDevice(args[i])}

Least(S) == CHOOSE i \in S : \A j \in S : i <= j

HasDeviceCandidate(args) == TensorBearers(args) # {} \/ Devices(args) # {}

\* the parameter the precedence names, when there is a candidate
ExpectedDevice(args) ==
    IF ConstTensors(args) # {} THEN args[Least(ConstTensors(args))].name
    ELSE IF TensorBearers(args) # {} THEN args[Least(TensorBearers(args))].name
    ELSE args[Least(Devices(args))].name

\* the device arguments named by the wrapping calls of a return line
DeviceTokens(line) ==
    { line.comps[i][Len(line.comps[i]) - 1] :
        i \in { j \in 1..Len(line.comps) : line.comps[j][1] = "to_device_opt(" } }

ReturnLine == LinesOfKind(out[1], "return")[1]

\* C3: the device argument of every wrapping call is the parameter the
\* precedence names: the first non-mutating Tensor / Tensor?, else the first
\* tensor-like parameter, else the first Device / Device? parameter.
C3_DevicePrecedence ==
    (DefinitionProduced /\ g.f.returns # <<>>)
        => DeviceTokens(ReturnLine) \subseteq {ExpectedDevice(g.f.args)}

C3_Witness ==
    /\ DefinitionProduced
    /\ Len(g.f.args) = 2
    /\ g.f.args[1].type = TensorT
    /\ g.f.args[1].annotation = Annotation(TRUE)
    /\ IsConstTensor(g.f.args[2])
    /\ g.f.returns # <<>>
    /\ DeviceTokens(ReturnLine) = {g.f.args[2].name}

C3_WitnessTensorList ==
    /\ DefinitionProduced
    /\ Len(g.f.args) = 1
    /\ g.f.args[1].type = ListType(TensorT)
    /\ g.f.returns # <<>>
    /\ DeviceTokens(ReturnLine) = {g.f.args[1].name}

\* C4 as claimed: every eligible operation without a tensor-like or Device
\* parameter aborts its Definition, whatever its returns, and no other does.
C4_AbortsWhateverReturns ==
    (Single /\ target = NAMESPACED_DEFINITION /\ pc # "call" /\ Eligible(g.f))
        => (Raised <=> ~HasDeviceCandidate(g.f.args))

\* C4 amended: an eligible operation aborts its Definition with the fatal
\* error exactly when it declares at least one return and has no tensor-like
\* or Device parameter; with no declared return the text is produced.
C4_AbortsWhenReturning ==
    (Single /\ target = NAMESPACED_DEFINITION /\ pc # "call" /\ Eligible(g.f))
        => /\ Raised <=> (g.f.returns # <<>> /\ ~HasDeviceCandidate(g.f.args))
           /\ Raised => (err = NeedDevice /\ out = <<>>)
           /\ ~Raised => (Returned /\ Len(out) = 1)

C4_Witness ==
    /\ Single
    /\ target = NAMESPACED_DEFINITION
    /\ Eligible(g.f)
    /\ ~HasDeviceCandidate(g.f.args)
    /\ Len(g.f.returns) = 2
    /\ Raised
    /\ err = NeedDevice

C4_WitnessNoReturns ==
    /\ DefinitionProduced
    /\ Eligible(g.f)
    /\ ~HasDeviceCandidate(g.f.args)
    /\ g.f.returns = <<>>

\* the registration line that binds f's qualified name to the generated symbol
RegistrationLine(f) ==
    [kind |-> "m.impl", op |-> OperatorNameStr(f.name),
     cls |-> "AtenXlaTypeDefault", name |-> f.name.name]

\* the backend implements f itself, or the functional member of f's group
NativelyCovered(f) ==
    f.metadata \/ (g.kind = "group" /\ g.functional.metadata)

RECURSIVE ExpectedRegistrations(_)
ExpectedRegistrations(fs) ==
    IF fs = <<>> THEN <<>>
    ELSE (IF Eligible(Head(fs)) /\ ~NativelyCovered(Head(fs))
          THEN <<RegistrationLine(Head(fs))>> ELSE <<>>)
         \o ExpectedRegistrations(Tail(fs))

\* C5: under Registration the output holds no line for an eligible operation
\* that has backend metadata or whose group's functional member has it, and
\* exactly one line, binding its qualified name to the AtenXlaTypeDefault
\* symbol, for every other eligible operation, alone or in a group.
C5_Registration ==
    (Returned /\ target = REGISTRATION)
        => /\ Flatten(out) = ExpectedRegistrations(Members)
           /\ \A i \in 1..Len(out) : Len(out[i]) <= 1

C5_Witness ==
    /\ Returned
    /\ target = REGISTRATION
    /\ UnstructuredGroup
    /\ Eligible(g.out)
    /\ ~g.out.metadata
    /\ g.functional.metadata
    /\ g.inplace = <<>>
    /\ Flatten(out) = <<>>

C5_WitnessLine ==
    /\ Returned
    /\ target = REGISTRATION
    /\ UnstructuredGroup
    /\ ~g.functional.metadata
    /\ Len(Flatten(out)) = 2

\* a return is wrapped exactly when it is a Tensor that is not written to,
\* or a list of Tensor
Wrapped(ret) ==
    \/ (ret.type = TensorT /\ ret.annotation # Annotation(TRUE))
    \/ ret.type = ListType(TensorT)

\* the name the signature layer gives return i
ReturnName(f, i) ==
    IF f.returns[i].name # "" THEN <<f.returns[i].name>>
    ELSE IF Len(f.returns) = 1 THEN <<"x_result">>
    ELSE <<"x_result", ToString(i - 1)>>

CapturedComponent(f, i) ==
    IF Len(f.returns) = 1 THEN <<"x_result">>
    ELSE <<"std::get<", ToString(i - 1), ">(", "x_result", ")">>

ExpectedComponent(f, i) ==
    IF Wrapped(f.returns[i])
    THEN <<"to_device_opt(">> \o CapturedComponent(f, i)
            \o <<", get_device_arg(", ExpectedDevice(f.args), "))">>
    ELSE ReturnName(f, i)

\* C6: each return is wrapped by to_device_opt over the captured result and
\* get_device_arg of the device argument exactly when it is a non-reference
\* Tensor or a list of Tensor, and is its own name otherwise; with N > 1
\* returns component i reads std::get<i> and the components form the tuple
\* in declared order.
C6_ResultWrapper ==
    (DefinitionProduced /\ g.f.returns # <<>>)
        => /\ Len(LinesOfKind(out[1], "return")) = 1
           /\ ReturnLine.tuple = (Len(g.f.returns) > 1)
           /\ Len(ReturnLine.comps) = Len(g.f.returns)
           /\ \A i \in 1..Len(g.f.returns) :
                 ReturnLine.comps[i] = ExpectedComponent(g.f, i)

C6_Witness ==
    /\ DefinitionProduced
    /\ Len(g.f.returns) = 2
    /\ g.f.returns[1].type = TensorT
    /\ g.f.returns[1].annotation = Annotation(TRUE)
    /\ g.f.returns[2].type = ListType(TensorT)
    /\ ReturnLine.comps[1] = <<"x_result", "0">>
    /\ ReturnLine.comps[2][1] = "to_device_opt("

\* the text holds a line that captures, suppresses or returns the result
UsesResult(text) ==
    \E i \in 1..Len(text) :
        \/ text[i].kind = "at_call" /\ text[i].capture # <<>>
        \/ text[i].kind = "static_cast_void"
        \/ text[i].kind = "return"

\* C7: without declared returns the call is emitted for effect only: nothing
\* is captured, and there is no static_cast<void> line and no return line;
\* with a declared return the call is captured into x_result, and one
\* suppression line and one return line follow.
C7_CaptureAndReturn ==
    DefinitionProduced
        => LET text == out[1]
               call == LinesOfKind(text, "at_call")
           IN  /\ Len(call) = 1
               /\ IF g.f.returns = <<>>
                  THEN ~UsesResult(text)
                  ELSE /\ call[1].capture = <<"x_result">>
                       /\ LinesOfKind(text, "static_cast_void")
                              = <<[kind |-> "static_cast_void", var |-> "x_result"]>>
                       /\ Len(LinesOfKind(text, "return")) = 1
                       /\ PositionOfKind(text, "at_call")
                              < PositionOfKind(text, "static_cast_void")
                       /\ PositionOfKind(text, "static_cast_void")
                              < PositionOfKind(text, "return")

C7_Witness ==
    /\ DefinitionProduced
    /\ g.f.returns = <<>>
    /\ g.f.args # <<>>
    /\ ~UsesResult(out[1])

C7_WitnessCaptured ==
    /\ DefinitionProduced
    /\ g.f.returns # <<>>
    /\ UsesResult(out[1])

IsTensorList(a) == a.type = ListType(TensorT)

IsOptTensor(a) == a.type = OptionalType(TensorT)

IsPlainTensor(a) == a.type = TensorT

OptTensors(args) == {i \in 1..Len(args) : IsOptTensor(args[i])}

PlainTensors(args) == {i \in 1..Len(args) : IsPlainTensor(args[i])}

\* the slot of parameter p in the vector of the parameters at positions S:
\* how many of them come before p
Slot(S, p) == Cardinality({j \in S : j < p})

\* the binding of the parameter at position p
ExpectedBinding(args, p) ==
    IF IsTensorList(args[p]) THEN <<"l_", args[p].name>>
    ELSE IF IsOptTensor(args[p])
    THEN <<"xlatens_opt[", ToString(Slot(OptTensors(args), p)), "]">>
    ELSE IF IsPlainTensor(args[p])
    THEN <<"xlatens[", ToString(Slot(PlainTensors(args), p)), "]">>
    ELSE <<args[p].name>>

ExpectedBindings(args) == [p \in 1..Len(args) |-> ExpectedBinding(args, p)]

CallLine == LinesOfKind(out[1], "at_call")[1]

\* the vectors the slots index hold the parameters in first-seen order
VectorsInOrder(text, args) ==
    /\ LinesOfKind(text, "xlatens_tensors")
         = <<[kind |-> "xlatens_tensors",
              names |-> Names(SelectSeq(args, IsPlainTensor))]>>
    /\ LinesOfKind(text, "xlatens_opt_tensors")
         = IF OptTensors(args) # {}
           THEN <<[kind |-> "xlatens_opt_tensors",
                   names |-> Names(SelectSeq(args, IsOptTensor))]>>
           ELSE <<>>
    /\ LET ls == LinesOfKind(text, "to_cpu_list") IN
         /\ Len(ls) = Len(SelectSeq(args, IsTensorList))
         /\ \A i \in 1..Len(ls) :
               /\ ls[i].arg = SelectSeq(args, IsTensorList)[i].name
               /\ ls[i].var = <<"l_", ls[i].arg>>

\* C8 as claimed: the call's argument list has one entry per parameter, in
\* dispatcher order, each entry being the parameter's binding.
C8_ArgumentPerParameter ==
    DefinitionProduced
        => /\ VectorsInOrder(out[1], g.f.args)
           /\ CallLine.args = ExpectedBindings(g.f.args)

\* C8 amended: every parameter has exactly one binding (l_<p> for Tensor[],
\* slot k of the optional vector, slot k of the plain-tensor vector, or its
\* own name), and the call uses the bindings in dispatcher order: all of
\* them as the argument list of a free function; the first as the receiver
\* and the rest as the argument list of a method.
C8_Bindings ==
    DefinitionProduced
        => /\ VectorsInOrder(out[1], g.f.args)
           /\ DOMAIN tensorlist_args(g.f.args) \cap DOMAIN opt_tensor_args(g.f.args) = {}
           /\ DOMAIN tensorlist_args(g.f.args) \cap DOMAIN tensor_args(g.f.args) = {}
           /\ DOMAIN opt_tensor_args(g.f.args) \cap DOMAIN tensor_args(g.f.args) = {}
           /\ IF CallLine.method
              THEN <<CallLine.receiver>> \o CallLine.args
                       = ExpectedBindings(g.f.args)
              ELSE /\ CallLine.receiver = <<>>
                   /\ CallLine.args = ExpectedBindings(g.f.args)
           /\ CallLine.method = ("function" \notin g.f.variants)

C8_Witness ==
    /\ DefinitionProduced
    /\ ~CallLine.method
    /\ Len(g.f.args) = 2
    /\ IsPlainTensor(g.f.args[1])
    /\ IsPlainTensor(g.f.args[2])
    /\ g.f.args[2].annotation = Annotation(TRUE)
    /\ CallLine.args = << <<"xlatens[", "0", "]">>, <<"xlatens[", "1", "]">> >>

C8_WitnessMethod ==
    /\ DefinitionProduced
    /\ CallLine.method
    /\ Len(g.f.args) = 2
    /\ IsTensorList(g.f.args[2])
    /\ CallLine.receiver = <<"xlatens[", "0", "]">>
    /\ CallLine.args = << <<"l_", "other">> >>

\* the slots of the plain-tensor vector that hold a written parameter
WrittenSlots(args) ==
    { Slot(PlainTensors(args), p) :
        p \in { q \in PlainTensors(args) : args[q].annotation = Annotation(TRUE) } }

IsSorted(xs) == \A i \in 1..(Len(xs) - 1) : xs[i] < xs[i + 1]

\* C9: the indices copied back are exactly the plain-tensor slots of the
\* write-annotated plain Tensor parameters; the copy-back block is emitted
\* exactly when there is such a slot, after the call and before the return.
C9_CopyBack ==
    DefinitionProduced
        => LET text == out[1]
               ind == LinesOfKind(text, "xlatens_update_indices")
               loop == LinesOfKind(text, "copy_back_loop")
           IN  IF WrittenSlots(g.f.args) = {}
               THEN ind = <<>> /\ loop = <<>>
               ELSE /\ Len(ind) = 1
                    /\ Len(loop) = 1
                    /\ SeqRange(ind[1].indices) = WrittenSlots(g.f.args)
                    /\ IsSorted(ind[1].indices)
                    /\ PositionOfKind(text, "at_call")
                         < PositionOfKind(text, "xlatens_update_indices")
                    /\ PositionOfKind(text, "copy_back_loop")
                         = PositionOfKind(text, "xlatens_update_indices") + 1
                    /\ \A i \in 1..Len(text) :
                          text[i].kind = "return"
                              => PositionOfKind(text, "copy_back_loop") < i

C9_Witness ==
    /\ DefinitionProduced
    /\ Len(g.f.args) = 2
    /\ IsPlainTensor(g.f.args[1])
    /\ g.f.args[1].annotation = Annotation(FALSE)
    /\ IsPlainTensor(g.f.args[2])
    /\ g.f.args[2].annotation = Annotation(TRUE)
    /\ g.f.returns # <<>>
    /\ LinesOfKind(out[1], "xlatens_update_indices")[1].indices = <<1>>

\* what the operation yields when it is passed alone under the same target
Alone(f) == gen_unstructured_external(f, Function(f), target)

RECURSIVE AloneLines(_)
AloneLines(fs) ==
    IF fs = <<>> THEN <<>> ELSE Alone(Head(fs)).text \o AloneLines(Tail(fs))

RECURSIVE MemberLines(_)
MemberLines(fs) ==
    IF fs = <<>> THEN <<>>
    ELSE (IF target = REGISTRATION /\ g.functional.metadata
          THEN <<>> ELSE Alone(Head(fs)).text)
         \o MemberLines(Tail(fs))

StructuredFails ==
    (g.kind = "group" /\ g.structured /\ pc # "call")
        => (Raised /\ err = NotImplemented /\ out = <<>> /\ trace = <<>>)

\* the group's list is returned exactly when no member aborts
MembersDecide ==
    (UnstructuredGroup /\ pc \in {"returned", "raised"})
        => (Raised <=> \E i \in 1..Len(Members) :
                          Alone(Members[i]).status = "AssertionError")

\* C10 as claimed: a structured group fails under every target; the text of
\* an unstructured group is, member by member and in member order, what each
\* member produces when passed alone under the same target.
C10_MembersAsAlone ==
    /\ StructuredFails
    /\ MembersDecide
    /\ (UnstructuredGroup /\ Returned) => Flatten(out) = AloneLines(Members)

\* C10 amended: as claimed, except that under Registration a member yields
\* no line when the group's functional member has backend metadata.
C10_MembersInOrder ==
    /\ StructuredFails
    /\ MembersDecide
    /\ (UnstructuredGroup /\ Returned) => Flatten(out) = MemberLines(Members)

C10_Witness ==
    /\ UnstructuredGroup
    /\ Returned
    /\ target = NAMESPACED_DEFINITION
    /\ Len(Members) = 3
    /\ Len(out) = 3
    /\ out[1][1].kind = "defn"

C10_WitnessStructured ==
    /\ g.kind = "group"
    /\ g.structured
    /\ Raised
    /\ Eligible(g.functional)
    /\ err = NotImplemented

=============================================================================
